---- MODULE Spec2Model ----
(***************************************************************************)
(* CaramelBoard JoyTag bridge (src/integrations/joytag/joytag_server.py).  *)
(*                                                                         *)
(* The process state is the three module globals model, top_tags, device   *)
(* and THRESHOLD_DEFAULT.  The operations are the steps of                 *)
(* initialize_model, the __main__ block's app.run, and the two route       *)
(* handlers health and api_tag.  Confidence scores and thresholds are      *)
(* counted in tenths (0.4 is 4); float() is modelled by what it parses.    *)
(***************************************************************************)
EXTENDS Integers, Sequences, FiniteSets, TLC

VARIABLES
    mode,               \* "script": run as __main__; "imported": app served by a host
    pc,                 \* progress of initialize_model / __main__
    model,              \* global model
    top_tags,           \* global top_tags
    device,             \* global device
    THRESHOLD_DEFAULT,  \* global THRESHOLD_DEFAULT
    last_op,            \* the operation that produced the current state
    health_resp,        \* response of the /health request being answered
    tag_resp,           \* response of the /api/v1/tag request being answered
    tag_log,            \* what that request carried and which steps it ran
    prep_in,            \* (w, h, target) handed to _prepare_image
    prep_out            \* what _prepare_image made of it

vars == <<mode, pc, model, top_tags, device, THRESHOLD_DEFAULT, last_op,
          health_resp, tag_resp, tag_log, prep_in, prep_out>>

ModelState == <<model, top_tags, device>>

-----------------------------------------------------------------------------
(* Bounds *)

MaxLines == 2       \* lines of top_tags.txt
MaxSide == 2        \* model.image_size ranges over 1..MaxSide
MaxScoreSteps == 1  \* scores range over THRESHOLD_UNSET-1 .. THRESHOLD_UNSET-1+MaxScoreSteps
MaxDim == 5         \* image sides and target sizes tried on _prepare_image

-----------------------------------------------------------------------------
(* Values *)

THRESHOLD_UNSET == 4    \* the 0.4 of os.environ.get("JOYTAG_THRESHOLD", 0.4), in tenths

ScoreVals == (THRESHOLD_UNSET - 1)..(THRESHOLD_UNSET - 1 + MaxScoreSteps)
ThresholdVals == (THRESHOLD_UNSET - 1)..(THRESHOLD_UNSET + 1)

\* Python's None for the two globals that start as None.
NoModel == [loaded |-> FALSE, image_size |-> 0]
NoTags == [is_none |-> TRUE, list |-> <<>>]
TagList(l) == [is_none |-> FALSE, list |-> l]

\* A value handed to float(): a number, a numeric string, a non-numeric string,
\* JSON null; Absent stands for a key that is not there.
Num(v) == [kind |-> "num", val |-> v]
Str(v) == [kind |-> "str", val |-> v]
BadStr == [kind |-> "bad", val |-> 0]
Null == [kind |-> "null", val |-> 0]
Absent == [kind |-> "absent", val |-> 0]

\* float(x): the number, the number a numeric string spells, ValueError for
\* another string, TypeError for None.
float(raw) ==
    CASE raw.kind = "num" -> [ok |-> TRUE, val |-> raw.val, exc |-> ""]
      [] raw.kind = "str" -> [ok |-> TRUE, val |-> raw.val, exc |-> ""]
      [] raw.kind = "bad" -> [ok |-> FALSE, val |-> 0, exc |-> "ValueError: could not convert string to float"]
      [] OTHER -> [ok |-> FALSE, val |-> 0, exc |-> "TypeError: float() argument must be a string or a real number"]

\* dict.get(key, default)
Get(raw, default) == IF raw.kind = "absent" THEN default ELSE raw

-----------------------------------------------------------------------------
(* Module import: THRESHOLD_DEFAULT = float(os.environ.get("JOYTAG_THRESHOLD", 0.4)). *)
(* An environment value float() rejects ends the process at import.               *)

EnvThresholds == {Absent, Str(THRESHOLD_UNSET + 1)}

ThresholdDefault(env) == float(Get(env, Num(THRESHOLD_UNSET))).val

NoHealth == [status |-> 0, body |-> [status |-> "", joytag |-> "", device |-> "", tags |-> 0, version |-> ""]]
NoTagResp == [status |-> 0, keys |-> {}, error |-> "", predicted_tags |-> <<>>,
              tag_count |-> 0, threshold |-> 0, scores |-> <<>>]
NoLog == [is_json |-> FALSE, body |-> "", keys |-> {}, threshold |-> Absent,
          trace |-> <<>>, tensor |-> <<>>]
NoPrepIn == [w |-> 0, h |-> 0, target |-> 0]
NoPrepOut == [m |-> 0, pad_l |-> 0, pad_t |-> 0, resized |-> FALSE, shape |-> <<0, 0, 0>>]

Globals(md) ==
    /\ mode = md
    /\ pc = "start"
    /\ model = NoModel
    /\ top_tags = NoTags
    /\ device = "cpu"
    /\ \E env \in EnvThresholds : THRESHOLD_DEFAULT = ThresholdDefault(env)
    /\ last_op = "import"
    /\ health_resp = NoHealth
    /\ tag_resp = NoTagResp
    /\ tag_log = NoLog
    /\ prep_out = NoPrepOut

Init == Globals("script") /\ prep_in = NoPrepIn

-----------------------------------------------------------------------------
(* initialize_model *)

\* _pick_device
_pick_device(mps, cuda) == IF mps THEN "mps" ELSE IF cuda THEN "cuda" ELSE "cpu"

\* device = _pick_device()
PickDevice ==
    /\ pc = "start"
    /\ \E mps \in BOOLEAN, cuda \in BOOLEAN : device' = _pick_device(mps, cuda)
    /\ pc' = "picked"
    /\ last_op' = "init"
    /\ UNCHANGED <<mode, model, top_tags, THRESHOLD_DEFAULT, health_resp, tag_resp,
                   tag_log, prep_in, prep_out>>

\* model = VisionModel.load_model(model_dir); model = model.to(device).eval()
LoadModel ==
    /\ pc = "picked"
    /\ \E size \in 1..MaxSide : model' = [loaded |-> TRUE, image_size |-> size]
    /\ pc' = "loaded"
    /\ last_op' = "init"
    /\ UNCHANGED <<mode, top_tags, device, THRESHOLD_DEFAULT, health_resp, tag_resp,
                   tag_log, prep_in, prep_out>>

\* VisionModel.load_model raises: initialize_model ends with the exception.
LoadModelFails ==
    /\ pc = "picked"
    /\ pc' = "aborted"
    /\ last_op' = "init"
    /\ UNCHANGED <<mode, model, top_tags, device, THRESHOLD_DEFAULT, health_resp,
                   tag_resp, tag_log, prep_in, prep_out>>

\* The lines a top_tags.txt may hold: tags, a tag with blanks around it, a blank line.
Lines == {"cat", "dog", " cat ", ""}
TagFiles == UNION {[1..n -> Lines] : n \in 0..MaxLines}

\* str.strip
strip(ln) == IF ln = " cat " THEN "cat" ELSE ln

RECURSIVE ReadTags(_)
\* [ln.strip() for ln in ....splitlines() if ln.strip()]
ReadTags(lines) ==
    IF lines = <<>> THEN <<>>
    ELSE LET rest == ReadTags(Tail(lines))
         IN IF strip(Head(lines)) # "" THEN <<strip(Head(lines))>> \o rest ELSE rest

\* top_tags = [...] from an existing top_tags.txt
LoadTags ==
    /\ pc = "loaded"
    /\ \E file \in TagFiles : top_tags' = TagList(ReadTags(file))
    /\ pc' = "ready"
    /\ last_op' = "init"
    /\ UNCHANGED <<mode, model, device, THRESHOLD_DEFAULT, health_resp, tag_resp,
                   tag_log, prep_in, prep_out>>

\* not tags_file.exists(): raise FileNotFoundError
TagsFileMissing ==
    /\ pc = "loaded"
    /\ pc' = "aborted"
    /\ last_op' = "init"
    /\ UNCHANGED <<mode, model, top_tags, device, THRESHOLD_DEFAULT, health_resp,
                   tag_resp, tag_log, prep_in, prep_out>>

\* __main__: app.run(...) is reached only when initialize_model() returned.
AppRunEarly ==
    /\ mode = "script"
    /\ pc \in {"start", "ready"}
    /\ pc' = "serving"
    /\ last_op' = "run"
    /\ UNCHANGED <<mode, model, top_tags, device, THRESHOLD_DEFAULT, health_resp,
                   tag_resp, tag_log, prep_in, prep_out>>

AppRun ==
    /\ mode = "script"
    /\ pc = "ready"
    /\ pc' = "serving"
    /\ last_op' = "run"
    /\ UNCHANGED <<mode, model, top_tags, device, THRESHOLD_DEFAULT, health_resp,
                   tag_resp, tag_log, prep_in, prep_out>>

\* The listener hands a request to a handler: under __main__ once app.run runs,
\* under a host that imported the module at any time.  One request is answered
\* at a time.
Accepting ==
    /\ (mode = "script" /\ pc = "serving") \/ mode = "imported"
    /\ health_resp = NoHealth
    /\ tag_resp = NoTagResp

-----------------------------------------------------------------------------
(* GET /health *)

\* "ready" if (model is not None) else "loading"
ReadinessByTags(m, tt) == IF ~tt.is_none THEN "ready" ELSE "loading"

Readiness(m, tt) == IF m # NoModel THEN "ready" ELSE "loading"

\* len(top_tags or [])
TagsOrEmpty(tt) == IF tt.is_none THEN 0 ELSE Len(tt.list)

health_body(m, tt, dev) ==
    [status |-> 200,
     body |-> [status |-> "ok",
               joytag |-> Readiness(m, tt),
               device |-> dev,
               tags |-> TagsOrEmpty(tt),
               version |-> "cb-joytag-bridge-1"]]

health ==
    /\ Accepting
    /\ health_resp' = health_body(model, top_tags, device)
    /\ last_op' = "health"
    /\ UNCHANGED <<mode, pc, model, top_tags, device, THRESHOLD_DEFAULT, tag_resp,
                   tag_log, prep_in, prep_out>>

\* The response leaves; the handler's locals are gone.
Respond ==
    /\ health_resp # NoHealth \/ tag_resp # NoTagResp
    /\ health_resp' = NoHealth
    /\ tag_resp' = NoTagResp
    /\ tag_log' = NoLog
    /\ last_op' = "respond"
    /\ UNCHANGED <<mode, pc, model, top_tags, device, THRESHOLD_DEFAULT, prep_in, prep_out>>

-----------------------------------------------------------------------------
(* _prepare_image *)

Max(a, b) == IF a >= b THEN a ELSE b

\* if m != target
NeedsResizeOnlyDown(m, target) == m > target

NeedsResize(m, target) == m # target

\* The canvas side, the paste offsets, whether the canvas was resized, and the
\* (C, H, W) shape of pil_to_tensor(canvas) for the RGB canvas.
_prepare_image(w, h, target) ==
    LET m == Max(w, h)
        pad_l == (m - w) \div 2
        pad_t == (m - h) \div 2
        resized == NeedsResize(m, target)
        size == IF resized THEN <<target, target>> ELSE <<m, m>>
    IN [m |-> m, pad_l |-> pad_l, pad_t |-> pad_t, resized |-> resized,
        shape |-> <<3, size[2], size[1]>>]

PrepInputs == [w : 1..MaxDim, h : 1..MaxDim, target : 1..MaxDim]

InitPrepare == Globals("script") /\ prep_in \in PrepInputs

PrepareImage ==
    /\ prep_in # NoPrepIn
    /\ prep_out = NoPrepOut
    /\ prep_out' = _prepare_image(prep_in.w, prep_in.h, prep_in.target)
    /\ UNCHANGED <<mode, pc, model, top_tags, device, THRESHOLD_DEFAULT, last_op,
                   health_resp, tag_resp, tag_log, prep_in>>

NextPrepare == PrepareImage

SpecPrepare == InitPrepare /\ [][NextPrepare]_vars

-----------------------------------------------------------------------------
(* POST /api/v1/tag: what a request carries and what the world answers *)

\* request.is_json with a body get_json() rejects, with null (or {}, [], 0: the
\* values `or {}` replaces), with a non-empty array, or with an object whose
\* keys are among threshold, file_key, image_url.
JsonKeys == {"threshold", "file_key", "image_url"}
JsonThresholds == {Num(v) : v \in ThresholdVals} \cup {Str(v) : v \in ThresholdVals}
                      \cup {BadStr, Null}
FormThresholds == {Str(v) : v \in ThresholdVals} \cup {BadStr}

FILES_ROOT == "/srv/data"
FileKeys == {"gone.png", "notes.txt", "cat.png"}
Urls == {"http://down.example/cat.png", "http://up.example/404",
         "http://up.example/page.html", "http://up.example/cat.png"}
Uploads == {"cat.png", "notes.txt"}

\* Path(files_root) / data["file_key"]
AbsPath(file_key) == FILES_ROOT \o "/" \o file_key

\* abs_path.exists()
Exists(path) == path # AbsPath("gone.png")

\* Image.open(...).convert("RGB"): the decoded image, or UnidentifiedImageError.
NoImage == [ok |-> FALSE, w |-> 0, h |-> 0]
Decoded(w, h) == [ok |-> TRUE, w |-> w, h |-> h]
ImageOpen(name) ==
    CASE name = AbsPath("cat.png") -> Decoded(1, 2)
      [] name = "http://up.example/cat.png" -> Decoded(2, 1)
      [] name = "cat.png" -> Decoded(2, 2)
      [] OTHER -> NoImage

\* requests.get(url, timeout=30) followed by r.raise_for_status()
Fetch(url) ==
    CASE url = "http://down.example/cat.png" -> [ok |-> FALSE, exc |-> "ConnectionError"]
      [] url = "http://up.example/404" -> [ok |-> FALSE, exc |-> "HTTPError: 404 Client Error"]
      [] OTHER -> [ok |-> TRUE, exc |-> ""]

JsonRequests ==
    {[is_json |-> TRUE, body |-> b, keys |-> {}, threshold |-> Absent,
      file_key |-> "", image_url |-> "", upload |-> ""] : b \in {"malformed", "null", "array"}}
    \cup
    UNION {
      [is_json : {TRUE}, body : {"object"}, keys : {ks},
       threshold : IF "threshold" \in ks THEN JsonThresholds ELSE {Absent},
       file_key : IF "file_key" \in ks THEN FileKeys ELSE {""},
       image_url : IF "image_url" \in ks THEN Urls ELSE {""},
       upload : {""}] : ks \in SUBSET JsonKeys }

FormKeys == {"threshold", "image"}
FormRequests ==
    UNION {
      [is_json : {FALSE}, body : {"form"}, keys : {ks},
       threshold : IF "threshold" \in ks THEN FormThresholds ELSE {Absent},
       file_key : {""}, image_url : {""},
       upload : IF "image" \in ks THEN Uploads ELSE {""}] : ks \in SUBSET FormKeys }

Requests == JsonRequests \cup FormRequests

\* What the forward pass gives for one image: it raises, or a score vector.
MaxOut == MaxLines + 1
Forward == {[raises |-> TRUE, vec |-> <<>>]}
               \cup {[raises |-> FALSE, vec |-> v] : v \in UNION {[1..n -> ScoreVals] : n \in 0..MaxOut}}

-----------------------------------------------------------------------------
(* api_tag *)

\* jsonify({"error": ...}), status
Error(status, msg) ==
    [status |-> status, keys |-> {"error"}, error |-> msg, predicted_tags |-> <<>>,
     tag_count |-> 0, threshold |-> 0, scores |-> <<>>]

\* except Exception as e: return jsonify({"error": str(e)}), 500
CaughtKeepsThreshold(exc, threshold) ==
    [Error(500, exc) EXCEPT !.keys = {"error", "threshold"}, !.threshold = threshold]

Caught(exc, threshold) == Error(500, exc)

\* The handler returned (done) or holds an image and a threshold.
Return(resp, trace) ==
    [done |-> TRUE, resp |-> resp, threshold |-> 0, image |-> NoImage, trace |-> trace]
Resolved(image, threshold, trace) ==
    [done |-> FALSE, resp |-> NoTagResp, threshold |-> threshold, image |-> image, trace |-> trace]

\* float(data.get("threshold", threshold))
json_threshold_default_only(data, threshold) == float(Num(threshold))

json_threshold(data, threshold) == float(Get(data.threshold, Num(threshold)))

\* try: threshold = float(request.form.get("threshold", threshold)) except Exception: pass
form_threshold(form, threshold) ==
    LET f == float(Get(form.threshold, Num(threshold)))
    IN IF f.ok THEN f.val ELSE threshold

\* if "file_key" in data: ... elif "image_url" in data: ... else: ...
json_source_url_first(keys) ==
    IF "image_url" \in keys THEN "image_url"
    ELSE IF "file_key" \in keys THEN "file_key" ELSE "none"

json_source(keys) ==
    IF "file_key" \in keys THEN "file_key"
    ELSE IF "image_url" \in keys THEN "image_url" ELSE "none"

\* The request.is_json branch, lines 111-125.
resolve_json(req, dflt) ==
    IF req.body = "malformed"
    THEN Return(Caught("BadRequest: Failed to decode JSON object", dflt), <<"get_json">>)
    ELSE IF req.body = "array"
    THEN Return(Caught("AttributeError: 'list' object has no attribute 'get'", dflt),
                <<"get_json", "threshold">>)
    ELSE
      LET thr == json_threshold(req, dflt)
          src == json_source(req.keys)
          path == AbsPath(req.file_key)
          t2 == <<"get_json", "threshold">>
      IN IF ~thr.ok THEN Return(Caught(thr.exc, dflt), t2)
         ELSE CASE src = "file_key" ->
                     IF ~Exists(path)
                     THEN Return(Error(400, "file not found: " \o path), t2 \o <<"exists">>)
                     ELSE IF ~ImageOpen(path).ok
                     THEN Return(Caught("UnidentifiedImageError: cannot identify image file", thr.val),
                                 t2 \o <<"exists", "open">>)
                     ELSE Resolved(ImageOpen(path), thr.val, t2 \o <<"exists", "open">>)
                [] src = "image_url" ->
                     IF ~Fetch(req.image_url).ok
                     THEN Return(Caught(Fetch(req.image_url).exc, thr.val), t2 \o <<"fetch">>)
                     ELSE IF ~ImageOpen(req.image_url).ok
                     THEN Return(Caught("UnidentifiedImageError: cannot identify image file", thr.val),
                                 t2 \o <<"fetch", "open">>)
                     ELSE Resolved(ImageOpen(req.image_url), thr.val, t2 \o <<"fetch", "open">>)
                [] OTHER ->
                     Return(Error(400, "missing file_key or image_url"), t2)

\* The multipart branch, lines 127-134.
resolve_form(req, dflt) ==
    IF "image" \notin req.keys
    THEN Return(Error(400, "no image file provided"), <<"files">>)
    ELSE LET threshold == form_threshold(req, dflt)
             t2 == <<"files", "threshold", "open">>
         IN IF ~ImageOpen(req.upload).ok
            THEN Return(Caught("UnidentifiedImageError: cannot identify image file", threshold), t2)
            ELSE Resolved(ImageOpen(req.upload), threshold, t2)

\* scores >= threshold
meets_strictly(sc, threshold) == sc > threshold

meets(sc, threshold) == sc >= threshold

\* A dict as its items in insertion order; d[k] = v keeps the place of a key
\* that is already there.
DictSet(d, k, v) ==
    IF \E i \in 1..Len(d) : d[i][1] = k
    THEN [i \in 1..Len(d) |-> IF d[i][1] = k THEN <<k, v>> ELSE d[i]]
    ELSE Append(d, <<k, v>>)

RECURSIVE ScoresUpTo(_, _, _)
\* {top_tags[i]: float(scores_tensor[i]) for i in range(len(top_tags))}, first n items
ScoresUpTo(tags, vec, n) ==
    IF n = 0 THEN <<>> ELSE DictSet(ScoresUpTo(tags, vec, n - 1), tags[n], vec[n])

RECURSIVE Predicted(_, _)
\* [tg for tg, sc in scores.items() if sc >= threshold]
Predicted(items, threshold) ==
    IF items = <<>> THEN <<>>
    ELSE LET rest == Predicted(Tail(items), threshold)
         IN IF meets(Head(items)[2], threshold) THEN <<Head(items)[1]>> \o rest ELSE rest

\* _predict_image and the response of lines 139-147; processing_time_ms is a
\* clock reading and is carried as a key only.
predict_and_respond(r, m, tt, out) ==
    IF m = NoModel
    THEN [resp |-> Caught("AttributeError: 'NoneType' object has no attribute 'image_size'", r.threshold),
          trace |-> r.trace \o <<"image_size">>, tensor |-> <<>>]
    ELSE
      LET x == _prepare_image(r.image.w, r.image.h, m.image_size)
          t3 == r.trace \o <<"prepare", "forward">>
      IN IF out.raises
         THEN [resp |-> Caught("RuntimeError: forward pass failed", r.threshold),
               trace |-> t3, tensor |-> x.shape]
         ELSE IF tt.is_none
         THEN [resp |-> Caught("TypeError: object of type 'NoneType' has no len()", r.threshold),
               trace |-> t3 \o <<"scores">>, tensor |-> x.shape]
         ELSE IF Len(out.vec) < Len(tt.list)
         THEN [resp |-> Caught("IndexError: index out of bounds", r.threshold),
               trace |-> t3 \o <<"scores">>, tensor |-> x.shape]
         ELSE
           LET scores == ScoresUpTo(tt.list, out.vec, Len(tt.list))
               tags == Predicted(scores, r.threshold)
           IN [resp |-> [status |-> 200,
                         keys |-> {"predicted_tags", "tag_count", "threshold", "scores",
                                   "processing_time_ms"},
                         error |-> "",
                         predicted_tags |-> tags,
                         tag_count |-> Len(tags),
                         threshold |-> r.threshold,
                         scores |-> scores],
               trace |-> t3 \o <<"scores", "select">>,
               tensor |-> x.shape]

LogOf(req, trace, tensor) ==
    [is_json |-> req.is_json, body |-> req.body, keys |-> req.keys,
     threshold |-> req.threshold, trace |-> trace, tensor |-> tensor]

api_tag ==
    /\ Accepting
    /\ \E req \in Requests :
         LET r == IF req.is_json THEN resolve_json(req, THRESHOLD_DEFAULT)
                  ELSE resolve_form(req, THRESHOLD_DEFAULT)
         IN IF r.done
            THEN /\ tag_resp' = r.resp
                 /\ tag_log' = LogOf(req, r.trace, <<>>)
            ELSE \E out \in Forward :
                   LET p == predict_and_respond(r, model, top_tags, out)
                   IN /\ tag_resp' = p.resp
                      /\ tag_log' = LogOf(req, p.trace, p.tensor)
    /\ last_op' = "tag"
    /\ UNCHANGED <<mode, pc, model, top_tags, device, THRESHOLD_DEFAULT, health_resp,
                   prep_in, prep_out>>

-----------------------------------------------------------------------------
(* The process *)

\* python joytag_server.py
Next ==
    \/ PickDevice
    \/ LoadModel
    \/ LoadModelFails
    \/ LoadTags
    \/ TagsFileMissing
    \/ AppRun
    \/ health
    \/ api_tag
    \/ Respond

Spec == Init /\ [][Next]_vars

\* The module imported by a host that serves app and may call initialize_model
\* on another thread.
InitImported == Globals("imported") /\ prep_in = NoPrepIn

NextImported ==
    \/ PickDevice
    \/ LoadModel
    \/ LoadModelFails
    \/ LoadTags
    \/ TagsFileMissing
    \/ health
    \/ api_tag
    \/ Respond

SpecImported == InitImported /\ [][NextImported]_vars

-----------------------------------------------------------------------------
(* Properties *)

Pending == tag_resp # NoTagResp
Succeeded == tag_resp.status = 200
FailedAt == tag_log.trace[Len(tag_log.trace)]
Range(seq) == {seq[i] : i \in 1..Len(seq)}
NoRepeats(seq) == \A i, j \in 1..Len(seq) : seq[i] = seq[j] => i = j
ResultKeys == {"predicted_tags", "tag_count", "threshold", "scores", "processing_time_ms"}

\* The request failed on what the client sent: the body, the threshold value,
\* a missing source, a file_key that names no readable image, the fetch of
\* image_url, an upload that is no image.
ClientInputProblem ==
    /\ Pending
    /\ ~Succeeded
    /\ FailedAt \in {"get_json", "threshold", "exists", "open", "fetch", "files"}

\* C1: every client-input problem of a tag request is answered 400, and 500
\* is answered only for failures the request's input did not cause.
C1_ClientProblemsAre400 ==
    /\ ClientInputProblem => tag_resp.status = 400
    /\ (Pending /\ tag_resp.status = 500) => ~ClientInputProblem

\* C2: in a successful response predicted_tags holds exactly the tags whose
\* score is >= the threshold, each once, and tag_count is their number.
C2_PredictedIsScoresAtOrAboveThreshold ==
    Succeeded =>
      LET sc == tag_resp.scores
          p == tag_resp.predicted_tags
      IN /\ Range(p) = {sc[i][1] : i \in {j \in 1..Len(sc) : sc[j][2] >= tag_resp.threshold}}
         /\ NoRepeats(p)
         /\ Range(p) \subseteq {sc[i][1] : i \in 1..Len(sc)}
         /\ tag_resp.tag_count = Len(p)

\* A success where one score equals the threshold and another lies below it.
C2_Witness ==
    /\ Succeeded
    /\ \E i \in 1..Len(tag_resp.scores) : tag_resp.scores[i][2] = tag_resp.threshold
    /\ \E i \in 1..Len(tag_resp.scores) : tag_resp.scores[i][2] < tag_resp.threshold
    /\ tag_resp.tag_count = 1

\* C3: in a successful response scores has one entry per entry of top_tags, in
\* the order of top_tags, so as many entries as /health reports tags.
C3_OneScorePerVocabularyEntry ==
    Succeeded =>
      /\ Len(tag_resp.scores) = Len(top_tags.list)
      /\ \A i \in 1..Len(tag_resp.scores) : tag_resp.scores[i][1] = top_tags.list[i]
      /\ Len(tag_resp.scores) = health_body(model, top_tags, device).body.tags

\* C4: a JSON request whose body has file_key never fetches image_url; a fetch
\* happens only for a JSON body with image_url and without file_key.
C4_FileKeyBeforeImageUrl ==
    /\ (tag_log.is_json /\ "file_key" \in tag_log.keys) => "fetch" \notin Range(tag_log.trace)
    /\ "fetch" \in Range(tag_log.trace) =>
          tag_log.is_json /\ "image_url" \in tag_log.keys /\ "file_key" \notin tag_log.keys

\* Both keys were sent and the file_key lookup failed.
C4_Witness ==
    /\ tag_log.is_json
    /\ {"file_key", "image_url"} \subseteq tag_log.keys
    /\ tag_resp.status = 400
    /\ FailedAt = "exists"

\* C5: a request that names no image source is answered 400 with the fixed
\* message before any image is opened, whatever threshold it carries.
C5_NoSourceIs400 ==
    /\ (Pending /\ tag_log.is_json /\ tag_log.body \in {"object", "null"}
          /\ tag_log.keys \cap {"file_key", "image_url"} = {})
       => /\ tag_resp.status = 400
          /\ tag_resp.error = "missing file_key or image_url"
          /\ "open" \notin Range(tag_log.trace)
    /\ (Pending /\ ~tag_log.is_json /\ "image" \notin tag_log.keys)
       => /\ tag_resp.status = 400
          /\ tag_resp.error = "no image file provided"
          /\ "open" \notin Range(tag_log.trace)

SelectedBy(threshold) ==
    Range(tag_resp.predicted_tags) =
      {tag_resp.scores[i][1] : i \in {j \in 1..Len(tag_resp.scores) : tag_resp.scores[j][2] >= threshold}}

C7_HealthReflectsGlobals ==
    last_op = "health" =>
      /\ health_resp.status = 200
      /\ health_resp.body.status = "ok"
      /\ health_resp.body.joytag = (IF model = NoModel THEN "loading" ELSE "ready")
      /\ health_resp.body.tags = (IF top_tags.is_none THEN 0 ELSE Len(top_tags.list))

\* /health answered between the model load and the vocabulary load.
C7_Witness ==
    /\ last_op = "health"
    /\ model # NoModel
    /\ top_tags.is_none
    /\ health_resp.body.joytag = "ready"
    /\ health_resp.body.tags = 0

\* C8: a tag response is a success with the five result keys and no error, or
\* a 400/500 with an error and nothing of a result; no step ran twice.
C8_SuccessOrErrorOnly ==
    Pending =>
      /\ \/ /\ tag_resp.status = 200
            /\ tag_resp.keys = ResultKeys
            /\ "select" \in Range(tag_log.trace)
         \/ /\ tag_resp.status \in {400, 500}
            /\ tag_resp.keys = {"error"}
            /\ tag_resp.error # ""
            /\ tag_resp.predicted_tags = <<>>
            /\ tag_resp.scores = <<>>
            /\ "select" \notin Range(tag_log.trace)
      /\ NoRepeats(tag_log.trace)

\* The request failed while the score dictionary was being built.
C8_Witness ==
    /\ Pending
    /\ tag_resp.status = 500
    /\ FailedAt = "scores"

\* C9: model and top_tags are each set once, in initialize_model, before
\* app.run; a failed initialize_model never reaches app.run; requests are
\* answered only after both are set and no request changes model, top_tags or
\* device.
C9_InitializedOnceBeforeServing ==
    /\ []((Pending \/ health_resp # NoHealth) =>
             pc = "serving" /\ model # NoModel /\ ~top_tags.is_none)
    /\ [][/\ model' # model => model = NoModel /\ pc = "picked"
          /\ top_tags' # top_tags => top_tags.is_none /\ pc = "loaded"
          /\ pc \in {"ready", "serving"} => UNCHANGED ModelState
          /\ pc = "aborted" => pc' = "aborted"
          /\ pc' = "serving" => model # NoModel /\ ~top_tags.is_none
          /\ last_op' \in {"health", "tag"} => UNCHANGED ModelState]_vars

\* A failing tag request was answered by the running server.
C9_Witness ==
    /\ pc = "serving"
    /\ last_op = "tag"
    /\ tag_resp.status = 500

\* C10: the canvas side is max(w, h); the paste offsets are the floors of half
\* the slack, keep the image inside the canvas, are 0 along the longer side and
\* leave margins that differ by at most 1; the canvas is resized exactly when
\* its side differs from the target; the tensor is (3, target, target).
C10_PadAndShape ==
    prep_out # NoPrepOut =>
      LET w == prep_in.w
          h == prep_in.h
          o == prep_out
      IN /\ o.m >= w /\ o.m >= h /\ o.m \in {w, h}
         /\ 2 * o.pad_l <= o.m - w /\ o.m - w < 2 * o.pad_l + 2
         /\ 2 * o.pad_t <= o.m - h /\ o.m - h < 2 * o.pad_t + 2
         /\ o.pad_l >= 0 /\ o.pad_l + w <= o.m
         /\ o.pad_t >= 0 /\ o.pad_t + h <= o.m
         /\ w >= h => o.pad_l = 0
         /\ h >= w => o.pad_t = 0
         /\ (o.m - w - o.pad_l) - o.pad_l \in {0, 1}
         /\ (o.m - h - o.pad_t) - o.pad_t \in {0, 1}
         /\ o.resized <=> o.m # prep_in.target
         /\ o.shape = <<3, prep_in.target, prep_in.target>>

\* A tall image with odd slack, smaller than the target.
C10_Witness ==
    /\ prep_out # NoPrepOut
    /\ prep_in.h = prep_in.w + 3
    /\ prep_out.pad_l = 1
    /\ prep_out.m < prep_in.target
    /\ prep_out.resized

====
